---- MODULE Spec2Model ----
(***************************************************************************)
(* diet-tracker-bot: the food-text parser (food_parser.py), the meal       *)
(* recommender (recommender.py) and the SQLite catalog they read (db.py).  *)
(*                                                                         *)
(* Strings are sequences of one-character strings; a Hangul syllable is    *)
(* one character, written here as its romanisation ("gae", "gong", ...).   *)
(* Python floats are                                                       *)
(* exact rationals [n |-> numerator, d |-> denominator > 0] in lowest      *)
(* terms, so equal values have equal representations.                      *)
(***************************************************************************)
EXTENDS Integers, Sequences, FiniteSets, TLC

(***************************************************************************)
(* Bounds of the explored inputs.                                          *)
(***************************************************************************)
\* number of tokens a text handed to parse_text is made of
MaxPieces == 3
\* largest meal count handed to recommend_meals
MaxMeals == 2
\* largest number of diary entries stored at a time
MaxEntries == 2

(***************************************************************************)
(* Float arithmetic, as exact rationals.                                   *)
(***************************************************************************)
Abs(x) == IF x < 0 THEN -x ELSE x

RECURSIVE GCD(_, _)
GCD(a, b) == IF b = 0 THEN a ELSE GCD(b, a % b)

Rat(n, d) ==
    LET s == IF d < 0 THEN -1 ELSE 1
        g == GCD(Abs(n), Abs(d))
    IN  [n |-> (s * n) \div g, d |-> (s * d) \div g]

\* float(k) of an integer k
Float(k) == [n |-> k, d |-> 1]

Zero == Float(0)

\* a + b over the least common denominator
RatAdd(a, b) ==
    LET g == GCD(a.d, b.d)
    IN  Rat(a.n * (b.d \div g) + b.n * (a.d \div g), a.d * (b.d \div g))

RatNeg(a) == [n |-> -a.n, d |-> a.d]

RatSub(a, b) == RatAdd(a, RatNeg(b))

\* a * b, cancelling across the factors before multiplying
RatMul(a, b) ==
    LET g1 == GCD(Abs(a.n), b.d)
        g2 == GCD(Abs(b.n), a.d)
        h1 == IF g1 = 0 THEN 1 ELSE g1
        h2 == IF g2 = 0 THEN 1 ELSE g2
    IN  Rat((a.n \div h1) * (b.n \div h2), (a.d \div h2) * (b.d \div h1))

\* a / b for b # 0
RatDiv(a, b) == RatMul(a, Rat(b.d, b.n))

\* a < b: whole parts first, then the fractional parts cross-multiplied
RatLess(a, b) ==
    LET fa == a.n \div a.d
        fb == b.n \div b.d
    IN  IF fa # fb THEN fa < fb
        ELSE (a.n % a.d) * b.d < (b.n % b.d) * a.d

RatLeq(a, b) == ~RatLess(b, a)

\* Python max(a, b): b only when it is strictly greater
RatMax(a, b) == IF RatLess(a, b) THEN b ELSE a

\* Python min(a, b): b only when it is strictly smaller
RatMin(a, b) == IF RatLess(b, a) THEN b ELSE a

(***************************************************************************)
(* Strings.                                                                *)
(***************************************************************************)
\* str.isspace of one character
IsSpace(c) == c \in {" ", "\n", "\t"}

IsDigit(c) == c \in {"0", "1", "2", "3", "4", "5", "6", "7", "8", "9"}

DigitVal(c) ==
    CASE c = "0" -> 0 [] c = "1" -> 1 [] c = "2" -> 2 [] c = "3" -> 3
      [] c = "4" -> 4 [] c = "5" -> 5 [] c = "6" -> 6 [] c = "7" -> 7
      [] c = "8" -> 8 [] c = "9" -> 9

\* str.lower of one character (ASCII letters of the explored alphabet)
Lower(c) ==
    CASE c = "A" -> "a" [] c = "B" -> "b" [] c = "C" -> "c" [] c = "G" -> "g"
      [] c = "K" -> "k" [] c = "L" -> "l" [] c = "M" -> "m"
      [] OTHER -> c

LowerStr(s) == [i \in 1..Len(s) |-> Lower(s[i])]

RECURSIVE LStrip(_)
LStrip(s) == IF s # <<>> /\ IsSpace(Head(s)) THEN LStrip(Tail(s)) ELSE s

RECURSIVE RStrip(_)
RStrip(s) ==
    IF s # <<>> /\ IsSpace(s[Len(s)]) THEN RStrip(SubSeq(s, 1, Len(s) - 1)) ELSE s

\* str.strip()
Strip(s) == RStrip(LStrip(s))

\* s[from:] starts with p
StartsWithAt(s, from, p) ==
    /\ from + Len(p) - 1 <= Len(s)
    /\ \A i \in 1..Len(p) : s[from + i - 1] = p[i]

RECURSIVE Concat(_)
Concat(ss) == IF ss = <<>> THEN <<>> ELSE Head(ss) \o Concat(Tail(ss))

(***************************************************************************)
(* State.                                                                  *)
(***************************************************************************)
VARIABLES
    food_csv,     \* rows of data/food_db.csv as seed_foods reads them
    syn_json,     \* alias -> canonical pairs of data/synonyms.json
    db,           \* the SQLite file storage/diet.db
    log_text,     \* the free text the caller logs (diet_bot.py log --text)
    call,         \* the caller's latest parse_text / compute_nutrition / catalog call and what it returned
    pc,           \* position inside recommend_meals ("idle" outside a call)
    args,         \* arguments of the running (or latest) recommend_meals call
    frame,        \* locals of the running recommend_meals call
    ret,          \* outcome of the latest recommend_meals call
    ledger        \* the caller's record of the diary: entries it inserted and has not deleted

vars == <<food_csv, syn_json, db, log_text, call, pc, args, frame, ret, ledger>>

\* an optional value: <<>> is None, <<x>> is x
None == <<>>

Some(x) == <<x>>

(***************************************************************************)
(* db.py: the catalog store.                                               *)
(***************************************************************************)
\* before the first init_db no file and no table exists
NoDb == [exists |-> FALSE, user_profile |-> <<>>, food_items |-> <<>>,
         food_synonyms |-> <<>>, entries |-> <<>>]

FoodRow(name, kcal, protein, fat, carbs) ==
    [name |-> name, kcal |-> kcal, protein |-> protein, fat |-> fat, carbs |-> carbs]

DefaultProfile ==
    [id |-> 1, gender |-> "male", age |-> 25, height_cm |-> Float(175),
     weight_kg |-> Float(70), activity |-> "light", target_kcal |-> None,
     macro_ratio |-> [carb |-> Rat(4, 10), protein |-> Rat(3, 10), fat |-> Rat(3, 10)]]

\* INSERT OR IGNORE of every CSV row, name stripped, in file order
RECURSIVE seed_foods(_, _)
seed_foods(items, rows) ==
    IF rows = <<>> THEN items
    ELSE LET r == Head(rows)
             nm == Strip(r.name)
         IN  IF \E i \in 1..Len(items) : items[i].name = nm
             THEN seed_foods(items, Tail(rows))
             ELSE seed_foods(Append(items, [r EXCEPT !.name = nm]), Tail(rows))

\* INSERT OR IGNORE of every (alias, canonical) pair, both stripped
RECURSIVE seed_synonyms(_, _)
seed_synonyms(syns, pairs) ==
    IF pairs = <<>> THEN syns
    ELSE LET a == Strip(Head(pairs).alias)
             c == Strip(Head(pairs).canonical)
         IN  IF \E i \in 1..Len(syns) : syns[i].alias = a
             THEN seed_synonyms(syns, Tail(pairs))
             ELSE seed_synonyms(Append(syns, [alias |-> a, canonical |-> c]), Tail(pairs))

seed_default_profile(profile) ==
    IF Len(profile) > 0 THEN profile ELSE <<DefaultProfile>>

\* init_db that seeds only a file whose tables were already there
init_db_SeedsOnReopen(d) ==
    IF d.exists
    THEN [exists |-> TRUE,
          user_profile |-> seed_default_profile(d.user_profile),
          food_items |-> seed_foods(d.food_items, food_csv),
          food_synonyms |-> seed_synonyms(d.food_synonyms, syn_json),
          entries |-> d.entries]
    ELSE [d EXCEPT !.exists = TRUE]

\* init_db that creates the catalog table anew before seeding it
init_db_RecreatesCatalog(d) ==
    [exists |-> TRUE,
     user_profile |-> seed_default_profile(d.user_profile),
     food_items |-> seed_foods(<<>>, food_csv),
     food_synonyms |-> seed_synonyms(d.food_synonyms, syn_json),
     entries |-> d.entries]

\* CREATE TABLE IF NOT EXISTS, then the three seeders
init_db(d) ==
    [exists |-> TRUE,
     user_profile |-> seed_default_profile(d.user_profile),
     food_items |-> seed_foods(d.food_items, food_csv),
     food_synonyms |-> seed_synonyms(d.food_synonyms, syn_json),
     entries |-> d.entries]

\* an insert that leaves a stored row of that name as it is
upsert_food_KeepsOldRow(d, name, kcal, protein, fat, carbs) ==
    LET d1 == init_db(d)
        nm == Strip(name)
    IN  [d1 EXCEPT !.food_items =
            IF \E i \in 1..Len(@) : @[i].name = nm THEN @
            ELSE Append(@, FoodRow(nm, kcal, protein, fat, carbs))]

\* INSERT ... ON CONFLICT(name) DO UPDATE: the row keeps its place
upsert_food(d, name, kcal, protein, fat, carbs) ==
    LET d1 == init_db(d)
        nm == Strip(name)
        row == FoodRow(nm, kcal, protein, fat, carbs)
        items == d1.food_items
    IN  [d1 EXCEPT !.food_items =
            IF \E i \in 1..Len(items) : items[i].name = nm
            THEN [i \in 1..Len(items) |-> IF items[i].name = nm THEN row ELSE items[i]]
            ELSE Append(items, row)]

\* INSERT OR REPLACE: a row with the alias is deleted, the new row goes last
add_synonym(d, alias, canonical) ==
    LET d1 == init_db(d)
        a == Strip(alias)
        kept == SelectSeq(d1.food_synonyms, LAMBDA r : r.alias # a)
    IN  [d1 EXCEPT !.food_synonyms = Append(kept, [alias |-> a, canonical |-> Strip(canonical)])]

\* SQLite LIKE: % any run of characters, _ any one character, ASCII letters
\* compared without case
RECURSIVE LikeMatch(_, _)
LikeMatch(pat, s) ==
    IF pat = <<>> THEN s = <<>>
    ELSE IF Head(pat) = "%"
         THEN LikeMatch(Tail(pat), s) \/ (s # <<>> /\ LikeMatch(pat, Tail(s)))
         ELSE /\ s # <<>>
              /\ (Head(pat) = "_" \/ Lower(Head(pat)) = Lower(Head(s)))
              /\ LikeMatch(Tail(pat), Tail(s))

\* the rows of WHERE name LIKE '%name%'
LikeRows(items, name) ==
    SelectSeq(items, LAMBDA r : LikeMatch(<<"%">> \o name \o <<"%">>, r.name))

\* ORDER BY LENGTH(name) ASC LIMIT 1: the first of the shortest rows in scan order
RECURSIVE Shortest(_)
Shortest(rows) ==
    IF Len(rows) = 1 THEN rows[1]
    ELSE LET best == Shortest(Tail(rows))
         IN  IF Len(rows[1].name) <= Len(best.name) THEN rows[1] ELSE best

\* SELECT ... WHERE name=? on an opened connection, then the LIKE fallback
SelectFood(items, name) ==
    LET exact == SelectSeq(items, LAMBDA r : r.name = name)
        like == LikeRows(items, name)
    IN  IF exact # <<>> THEN Some(exact[1])
        ELSE IF like # <<>> THEN Some(Shortest(like))
        ELSE None

\* a lookup that opens the database and finds no row
get_food_FindsNothing(d, name) == [food |-> None, db |-> init_db(d)]

\* get_food: [food |-> None or <<row>>, db |-> the file after the call]
get_food(d, name) ==
    LET d1 == init_db(d)
    IN  [food |-> SelectFood(d1.food_items, name), db |-> d1]

\* resolve_canonical: alias, else the exact catalog name, else the input
resolve_canonical(d, name) ==
    LET d1 == init_db(d)
        nm == Strip(name)
        syn == SelectSeq(d1.food_synonyms, LAMBDA r : r.alias = nm)
        exact == SelectSeq(d1.food_items, LAMBDA r : r.name = nm)
    IN  [name |-> IF syn # <<>> THEN syn[1].canonical
                  ELSE IF exact # <<>> THEN exact[1].name
                  ELSE nm,
         db |-> d1]

\* get_profile: the first row by id as a dict, {} (here None) without a row
get_profile(d) ==
    IF d.user_profile = <<>> THEN None ELSE Some(d.user_profile[1])

\* set_profile: every argument is None or <<value>>; "x or current" also
\* falls back for an empty string and for an empty dict
set_profile(d, gender, age, height_cm, weight_kg, activity, target_kcal, macro_ratio) ==
    LET d1 == init_db(d)
        d2 == [d1 EXCEPT !.user_profile = seed_default_profile(@)]
        current == get_profile(d2)[1]
        FalsyStr(x) == x = None \/ x[1] = ""
        FalsyDict(x) == x = None \/ DOMAIN x[1] = {}
        row == [id |-> 1,
                gender |-> IF FalsyStr(gender) THEN current.gender ELSE gender[1],
                age |-> IF age = None THEN current.age ELSE age[1],
                height_cm |-> IF height_cm = None THEN current.height_cm ELSE height_cm[1],
                weight_kg |-> IF weight_kg = None THEN current.weight_kg ELSE weight_kg[1],
                activity |-> IF FalsyStr(activity) THEN current.activity ELSE activity[1],
                target_kcal |-> IF target_kcal = None THEN current.target_kcal
                                ELSE target_kcal,
                macro_ratio |-> IF FalsyDict(macro_ratio) THEN current.macro_ratio
                                ELSE macro_ratio[1]]
    IN  [d2 EXCEPT !.user_profile =
            [i \in 1..Len(@) |-> IF @[i].id = 1 THEN row ELSE @[i]]]

\* the rowid SQLite gives a new row of an INTEGER PRIMARY KEY table:
\* one more than the largest stored id, 1 for an empty table
NextRowId(rows) ==
    IF rows = <<>> THEN 1
    ELSE 1 + CHOOSE m \in { rows[i].id : i \in 1..Len(rows) } :
                 \A i \in 1..Len(rows) : rows[i].id <= m

\* insert_entry: [id |-> cur.lastrowid, db |-> the file after the call]
insert_entry(d, dt_iso, date_str, time_str, food_name, grams, kcal, protein, fat, carbs, raw_input) ==
    LET d1 == init_db(d)
        id == NextRowId(d1.entries)
    IN  [id |-> id,
         db |-> [d1 EXCEPT !.entries =
                    Append(@, [id |-> id, dt |-> dt_iso, date |-> date_str,
                               time |-> time_str, food_name |-> food_name,
                               grams |-> grams, kcal |-> kcal, protein |-> protein,
                               fat |-> fat, carbs |-> carbs, raw_input |-> raw_input])]]

\* delete_entry opens the file without init_db: with no entries table the
\* DELETE raises sqlite3.OperationalError
delete_entry(d, entry_id) ==
    IF ~d.exists THEN [status |-> "raised", error |-> "OperationalError", db |-> d]
    ELSE [status |-> "returned",
          db |-> [d EXCEPT !.entries = SelectSeq(@, LAMBDA r : r.id # entry_id)]]

\* SUM(column) over the rows in rowid order; None (SQL NULL) without rows
RECURSIVE SqlSum(_, _)
SqlSum(rows, column) ==
    IF rows = <<>> THEN None
    ELSE LET rest == SqlSum(SubSeq(rows, 1, Len(rows) - 1), column)
         IN  Some(RatAdd(IF rest = None THEN Zero ELSE rest[1], rows[Len(rows)][column]))

\* "s[k] or 0.0"
OrZero(x) == IF x = None THEN Zero ELSE x[1]

\* sum_entries opens the file without init_db: with no entries table the
\* SELECT raises sqlite3.OperationalError
sum_entries(d, date_str) ==
    IF ~d.exists THEN [status |-> "raised", error |-> "OperationalError"]
    ELSE LET rows == SelectSeq(d.entries, LAMBDA r : r.date = date_str)
         IN  [status |-> "returned",
              kcal |-> OrZero(SqlSum(rows, "kcal")),
              protein |-> OrZero(SqlSum(rows, "protein")),
              fat |-> OrZero(SqlSum(rows, "fat")),
              carbs |-> OrZero(SqlSum(rows, "carbs"))]

(***************************************************************************)
(* food_parser.py.                                                         *)
(***************************************************************************)
\* unit alternatives of NUM_UNIT_RE, in the order the regex tries them
UnitAlternatives ==
    << <<"g">>, <<"k", "g">>, <<"m", "l">>, <<"l">>, <<"gae">>, <<"gong", "gi">>,
       <<"keun", "sul">>, <<"jag", "eun", "sul">> >>

UNIT_TO_G ==
    (<<"g">> :> Float(1)) @@ (<<"k", "g">> :> Float(1000)) @@
    (<<"m", "l">> :> Float(1)) @@ (<<"l">> :> Float(1000)) @@
    (<<"gae">> :> Float(50)) @@ (<<"gong", "gi">> :> Float(210)) @@
    (<<"keun", "sul">> :> Rat(135, 10)) @@ (<<"jag", "eun", "sul">> :> Rat(45, 10))

\* text.replace(<geu ri go>, ","), leftmost first
RECURSIVE ReplaceAnd(_)
ReplaceAnd(s) ==
    IF s = <<>> THEN <<>>
    ELSE IF StartsWithAt(s, 1, <<"geu", "ri", "go">>)
         THEN <<",">> \o ReplaceAnd(SubSeq(s, 4, Len(s)))
         ELSE <<Head(s)>> \o ReplaceAnd(Tail(s))

\* a split pattern without the slash
IsSeparator_NoSlash(c) == c \in {",", "\n"}

IsSeparator(c) == c \in {",", "\n", "/"}

\* re.split(r",|\n|/", s): cur is the part being collected
RECURSIVE ReSplit(_, _)
ReSplit(s, cur) ==
    IF s = <<>> THEN <<cur>>
    ELSE IF IsSeparator(Head(s)) THEN <<cur>> \o ReSplit(Tail(s), <<>>)
         ELSE ReSplit(Tail(s), Append(cur, Head(s)))

split_items(text) ==
    LET parts == ReSplit(ReplaceAnd(text), <<>>)
        kept == SelectSeq(parts, LAMBDA q : Strip(q) # <<>>)
    IN  [i \in 1..Len(kept) |-> Strip(kept[i])]

\* end of the run of digits that starts at i
RECURSIVE DigitsEnd(_, _)
DigitsEnd(s, i) ==
    IF i + 1 <= Len(s) /\ IsDigit(s[i + 1]) THEN DigitsEnd(s, i + 1) ELSE i

\* end of the run of whitespace after position i (i itself when there is none)
RECURSIVE SpaceEnd(_, _)
SpaceEnd(s, i) ==
    IF i + 1 <= Len(s) /\ IsSpace(s[i + 1]) THEN SpaceEnd(s, i + 1) ELSE i

\* int() of a run of digits
RECURSIVE DigitsValue(_)
DigitsValue(ds) ==
    IF ds = <<>> THEN 0
    ELSE 10 * DigitsValue(SubSeq(ds, 1, Len(ds) - 1)) + DigitVal(ds[Len(ds)])

RECURSIVE Pow10(_)
Pow10(k) == IF k = 0 THEN 1 ELSE 10 * Pow10(k - 1)

\* NUM_UNIT_RE.search(segment): None, or the leftmost match
\* [start, end: first and last matched position, value: float(group 1),
\*  unit: group 2 or None]
NUM_UNIT_RE_search(segment) ==
    LET digits == {i \in 1..Len(segment) : IsDigit(segment[i])}
    IN  IF digits = {} THEN None
        ELSE LET start == CHOOSE i \in digits : \A j \in digits : i <= j
                 e1 == DigitsEnd(segment, start)
                 frac == /\ e1 + 2 <= Len(segment)
                         /\ segment[e1 + 1] = "."
                         /\ IsDigit(segment[e1 + 2])
                 e2 == IF frac THEN DigitsEnd(segment, e1 + 2) ELSE e1
                 whole == DigitsValue(SubSeq(segment, start, e1))
                 value == IF frac
                          THEN Rat(whole * Pow10(e2 - e1 - 1)
                                     + DigitsValue(SubSeq(segment, e1 + 2, e2)),
                                   Pow10(e2 - e1 - 1))
                          ELSE Float(whole)
                 e3 == SpaceEnd(segment, e2)
                 hits == {k \in 1..Len(UnitAlternatives) :
                            /\ e3 + Len(UnitAlternatives[k]) <= Len(segment)
                            /\ LowerStr(SubSeq(segment, e3 + 1, e3 + Len(UnitAlternatives[k])))
                                 = UnitAlternatives[k]}
             IN  IF hits = {}
                 THEN Some([start |-> start, end |-> e3, value |-> value, unit |-> None])
                 ELSE LET k == CHOOSE h \in hits : \A j \in hits : h <= j
                          e4 == e3 + Len(UnitAlternatives[k])
                      IN  Some([start |-> start, end |-> e4, value |-> value,
                                unit |-> Some(SubSeq(segment, e3 + 1, e4))])

\* extract_amount that keeps the unit in the case it was typed in
extract_amount_KeepsCase(segment) ==
    LET m == NUM_UNIT_RE_search(segment)
    IN  IF m = None THEN None
        ELSE Some([value |-> m[1].value, unit |-> m[1].unit])

\* extract_amount: None, or <<[value, unit]>> with the unit lower-cased
extract_amount(segment) ==
    LET m == NUM_UNIT_RE_search(segment)
    IN  IF m = None THEN None
        ELSE Some([value |-> m[1].value,
                   unit |-> IF m[1].unit # None THEN Some(LowerStr(m[1].unit[1])) ELSE None])

to_grams(value, unit, food_name) ==
    IF unit = None THEN value
    ELSE IF unit[1] \notin DOMAIN UNIT_TO_G THEN value
    ELSE RatMul(value, UNIT_TO_G[unit[1]])

\* re.sub(r"\s+", " ", s)
RECURSIVE CollapseSpaces(_)
CollapseSpaces(s) ==
    IF s = <<>> THEN <<>>
    ELSE IF IsSpace(Head(s))
         THEN <<" ">> \o CollapseSpaces(LStrip(s))
         ELSE <<Head(s)>> \o CollapseSpaces(Tail(s))

\* the name candidate of a segment (parse_text lines 75-83)
name_part(segment) ==
    LET m == NUM_UNIT_RE_search(segment)
        cut == IF extract_amount(segment) # None
               THEN Strip(SubSeq(segment, 1, m[1].start - 1)
                          \o SubSeq(segment, m[1].end + 1, Len(segment)))
               ELSE segment
        nm == Strip(CollapseSpaces(cut))
    IN  IF nm = <<>> THEN Strip(segment) ELSE nm

\* the end of the loop body (lines 95-98): unresolved, or one more item
ParseEmit(acc, segment, nm, value_g, g) ==
    IF g.food = None
    THEN [acc EXCEPT !.unresolved = Append(@, segment), !.db = g.db]
    ELSE [acc EXCEPT !.items = Append(@, [raw_name |-> nm,
                                          canonical_name |-> g.food[1].name,
                                          grams |-> value_g]),
                     !.db = g.db]

\* "if not food: food = get_food(name_part)" (lines 92-94)
ParseFallback(acc, segment, nm, value_g, g) ==
    ParseEmit(acc, segment, nm, value_g,
              IF g.food = None THEN get_food(g.db, nm) ELSE g)

\* grams and the first lookup, by the canonical name (lines 85-91)
ParseLookup(acc, segment, amt, nm, rc) ==
    ParseFallback(acc, segment, nm,
                  IF amt # None THEN to_grams(amt[1].value, amt[1].unit, rc.name)
                  ELSE Float(100),
                  get_food(rc.db, rc.name))

\* canonical = resolve_canonical(name_part) (line 84)
ParseResolve(acc, segment, amt, nm) ==
    ParseLookup(acc, segment, amt, nm, resolve_canonical(acc.db, nm))

\* one pass of the parse_text loop body over a segment, on the file acc.db
ParseSegment(acc, segment) ==
    ParseResolve(acc, segment, extract_amount(segment), name_part(segment))

RECURSIVE ParseSegments(_, _)
ParseSegments(acc, segments) ==
    IF segments = <<>> THEN acc
    ELSE ParseSegments(ParseSegment(acc, Head(segments)), Tail(segments))

\* parse_text: [items, unresolved, db |-> the file after the call]
parse_text(d, text) ==
    ParseSegments([items |-> <<>>, unresolved |-> <<>>, db |-> d], split_items(text))

\* compute_nutrition: [kcal, protein, fat, carbs, db]
compute_nutrition(d, canonical_name, grams) ==
    LET g == get_food(d, canonical_name)
        factor == RatDiv(grams, Float(100))
    IN  IF g.food = None
        THEN [kcal |-> Zero, protein |-> Zero, fat |-> Zero, carbs |-> Zero, db |-> g.db]
        ELSE [kcal |-> RatMul(g.food[1].kcal, factor),
              protein |-> RatMul(g.food[1].protein, factor),
              fat |-> RatMul(g.food[1].fat, factor),
              carbs |-> RatMul(g.food[1].carbs, factor),
              db |-> g.db]

(***************************************************************************)
(* recommender.py.                                                         *)
(***************************************************************************)
Dakgaseumsal == <<"dak", "ga", "seum", "sal">>

Chamchikaen == <<"cham", "chi", "kaen", "(", "mul", ")">>

Gyeran == <<"gye", "ran">>

Dubu == <<"du", "bu">>

Yogeoteu == <<"yo", "geo", "teu">>

Yeoneo == <<"yeon", "eo">>

Godeungeo == <<"go", "deung", "eo">>

Baegmibap == <<"baeg", "mi", "bap">>

Hyeonmibap == <<"hyeon", "mi", "bap">>

Goguma == <<"go", "gu", "ma">>

Banana == <<"ba", "na", "na">>

Sagwa == <<"sa", "gwa">>

PROTEIN_FOODS == <<Dakgaseumsal, Chamchikaen, Gyeran, Dubu, Yogeoteu, Yeoneo, Godeungeo>>

CARB_FOODS == <<Baegmibap, Hyeonmibap, Goguma, Banana, Sagwa>>

FAT_HELPERS == <<Yeoneo, Godeungeo, Yogeoteu>>

FoodPortion(name, grams, kcal, protein, fat, carbs) ==
    [name |-> name, grams |-> grams, kcal |-> kcal, protein |-> protein,
     fat |-> fat, carbs |-> carbs]

\* nutrition_for: [portion, db |-> the file after the call]
nutrition_for(d, name, grams) ==
    LET g == get_food(d, name)
        factor == RatDiv(grams, Float(100))
    IN  IF g.food = None
        THEN [portion |-> FoodPortion(name, grams, Zero, Zero, Zero, Zero), db |-> g.db]
        ELSE [portion |-> FoodPortion(name, grams,
                                      RatMul(g.food[1].kcal, factor),
                                      RatMul(g.food[1].protein, factor),
                                      RatMul(g.food[1].fat, factor),
                                      RatMul(g.food[1].carbs, factor)),
              db |-> g.db]

\* min(hi, x / density * 100.0): the clamp without its floor
ClampGrams_NoFloor(x, density, lo, hi) ==
    IF RatLeq(RatMul(hi, density), RatMul(x, Float(100))) THEN hi
    ELSE RatDiv(RatMul(x, Float(100)), density)

\* min(hi, max(lo, x / density * 100.0)) for density > 0, decided by
\* cross-multiplication: the quotient is formed only when it lies in the range
ClampGrams(x, density, lo, hi) ==
    IF RatLeq(RatMul(hi, density), RatMul(x, Float(100))) THEN hi
    ELSE IF RatLeq(RatMul(x, Float(100)), RatMul(lo, density)) THEN lo
    ELSE RatDiv(RatMul(x, Float(100)), density)

\* every order in which list(set(names)) can enumerate the names
ListOfSet(names) ==
    LET elems == { names[i] : i \in 1..Len(names) }
    IN  { q \in [1..Cardinality(elems) -> elems] :
            \A i, j \in 1..Cardinality(elems) : i # j => q[i] # q[j] }

\* the scan "for cand in candidates: info = get_food(cand); if info: break"
RECURSIVE FirstInCatalog(_, _)
FirstInCatalog(d, candidates) ==
    IF candidates = <<>> THEN [picked |-> None, db |-> d]
    ELSE LET g == get_food(d, Head(candidates))
         IN  IF g.food # None THEN [picked |-> Some(Head(candidates)), db |-> g.db]
             ELSE FirstInCatalog(g.db, Tail(candidates))

\* a membership test that never finds the name
Avoided_Never(f, name) == FALSE

\* "x in avoid" (lines 65, 84, 105)
Avoided(f, name) == name \in f.avoid

\* portions.append(fp) that leaves the running totals alone
AddPortion_NoTotals(f, fp) == [f EXCEPT !.portions = Append(@, fp)]

\* portions.append(fp), then "total_kcal += fp.kcal" and the three lines after it
AddPortion(f, fp) ==
    [f EXCEPT !.portions = Append(@, fp),
              !.total_kcal = RatAdd(@, fp.kcal),
              !.total_p = RatAdd(@, fp.protein),
              !.total_f = RatAdd(@, fp.fat),
              !.total_c = RatAdd(@, fp.carbs)]

\* a meal start that empties the portions but keeps the running totals
NewMeal_KeepsTotals(f) == [f EXCEPT !.portions = <<>>]

\* the locals every meal starts from (lines 59-63)
NewMeal(f) ==
    [f EXCEPT !.portions = <<>>, !.total_kcal = Zero, !.total_p = Zero,
              !.total_f = Zero, !.total_c = Zero]

NoArgs == [op |-> "none"]

NoFrame == [op |-> "none"]

NoReturn == [status |-> "none"]

\* recommend_meals up to the start of the meal loop (lines 47-58):
\* meals = 0 raises ZeroDivisionError at "target_kcal / meals"
RecommendMeals ==
    /\ pc = "idle"
    /\ args # NoArgs
    /\ IF args.meals = 0
       THEN /\ ret' = [status |-> "raised", error |-> "ZeroDivisionError"]
            /\ UNCHANGED <<pc, frame>>
       ELSE LET per_meal == RatDiv(args.target_kcal, Float(args.meals))
                ratio == IF "protein" \in DOMAIN args.macro_ratio
                         THEN args.macro_ratio["protein"] ELSE Rat(3, 10)
                protein_target_g ==
                    RatMax(RatMul(Rat(16, 10), args.body_weight),
                           RatDiv(RatMul(args.target_kcal, ratio), Float(4)))
            IN  \E order \in ListOfSet(args.prefer) :
                    LET f == [avoid |-> { args.avoid[i] : i \in 1..Len(args.avoid) },
                              prefer |-> order,
                              per_meal |-> per_meal,
                              lower |-> RatMul(per_meal, Rat(9, 10)),
                              upper |-> RatMul(per_meal, Rat(11, 10)),
                              protein_per_meal |-> RatDiv(protein_target_g, Float(args.meals)),
                              meal |-> 1, idx |-> 1,
                              portions |-> <<>>, total_kcal |-> Zero, total_p |-> Zero,
                              total_f |-> Zero, total_c |-> Zero,
                              plans |-> <<>>]
                    IN  IF args.meals < 0
                        THEN /\ ret' = [status |-> "returned", plans |-> <<>>]
                             /\ UNCHANGED <<pc, frame>>
                        ELSE /\ pc' = "protein"
                             /\ frame' = f
                             /\ ret' = [status |-> "running"]
    /\ UNCHANGED <<food_csv, syn_json, db, log_text, call, args, ledger>>

\* start of one meal and its protein source (lines 59-82)
ProteinSlot ==
    /\ pc = "protein"
    /\ LET f0 == NewMeal(frame)
           candidates == SelectSeq(frame.prefer \o PROTEIN_FOODS,
                                   LAMBDA c : ~Avoided(frame, c))
           scan == FirstInCatalog(db, candidates)
       IN  IF scan.picked # None /\ scan.picked[1] # <<>>
           THEN LET g == get_food(scan.db, scan.picked[1])
                    p100 == g.food[1].protein
                    grams == ClampGrams(frame.protein_per_meal, RatMax(p100, Rat(1, 10)),
                                        Float(50), Float(200))
                    n == nutrition_for(g.db, scan.picked[1], grams)
                IN  /\ frame' = [AddPortion(f0, n.portion) EXCEPT !.idx = 1]
                    /\ db' = n.db
           ELSE /\ frame' = [f0 EXCEPT !.idx = 1]
                /\ db' = scan.db
    /\ pc' = "carb"
    /\ UNCHANGED <<food_csv, syn_json, log_text, call, args, ret, ledger>>

\* a carbohydrate loop that is always followed by the fat-helper loop
AfterCarbs_AlwaysFat(f) == "fat"

\* where the meal goes when the carbohydrate loop ends (line 103)
AfterCarbs(f) == IF RatLess(f.total_kcal, f.lower) THEN "fat" ELSE "emit"

\* one iteration of "for carb in list(prefer) + CARB_FOODS" (lines 83-101)
CarbStep ==
    /\ pc = "carb"
    /\ LET carbs == frame.prefer \o CARB_FOODS
       IN  IF frame.idx > Len(carbs)
           THEN /\ pc' = AfterCarbs(frame)
                /\ frame' = [frame EXCEPT !.idx = 1]
                /\ db' = db
           ELSE LET carb == carbs[frame.idx]
                    g == get_food(db, carb)
                    remain == IF RatLess(frame.total_kcal, frame.lower)
                              THEN RatMax(RatSub(frame.lower, frame.total_kcal), Zero)
                              ELSE RatSub(frame.per_meal, frame.total_kcal)
                IN  IF Avoided(frame, carb)
                    THEN /\ pc' = pc
                         /\ frame' = [frame EXCEPT !.idx = @ + 1]
                         /\ db' = db
                    ELSE IF g.food = None
                    THEN /\ pc' = pc
                         /\ frame' = [frame EXCEPT !.idx = @ + 1]
                         /\ db' = g.db
                    ELSE IF RatLeq(remain, Zero)
                    THEN /\ pc' = AfterCarbs(frame)
                         /\ frame' = [frame EXCEPT !.idx = 1]
                         /\ db' = g.db
                    ELSE LET grams == ClampGrams(remain, RatMax(g.food[1].kcal, Rat(1, 1000000)),
                                                 Float(80), Float(250))
                             n == nutrition_for(g.db, carb, grams)
                             f1 == AddPortion(frame, n.portion)
                         IN  /\ db' = n.db
                             /\ IF RatLeq(f1.lower, f1.total_kcal)
                                THEN /\ pc' = AfterCarbs(f1)
                                     /\ frame' = [f1 EXCEPT !.idx = 1]
                                ELSE /\ pc' = pc
                                     /\ frame' = [f1 EXCEPT !.idx = @ + 1]
    /\ UNCHANGED <<food_csv, syn_json, log_text, call, args, ret, ledger>>

\* one iteration of "for fatname in FAT_HELPERS" (lines 104-118)
FatStep ==
    /\ pc = "fat"
    /\ IF frame.idx > Len(FAT_HELPERS)
       THEN /\ pc' = "emit"
            /\ UNCHANGED <<frame, db>>
       ELSE LET fatname == FAT_HELPERS[frame.idx]
                g == get_food(db, fatname)
            IN  IF Avoided(frame, fatname)
                THEN /\ pc' = pc
                     /\ frame' = [frame EXCEPT !.idx = @ + 1]
                     /\ db' = db
                ELSE IF g.food = None
                THEN /\ pc' = pc
                     /\ frame' = [frame EXCEPT !.idx = @ + 1]
                     /\ db' = g.db
                ELSE LET add == ClampGrams(RatSub(frame.per_meal, frame.total_kcal),
                                           RatMax(g.food[1].kcal, Rat(1, 1000000)),
                                           Float(30), Float(100))
                         n == nutrition_for(g.db, fatname, add)
                         f1 == AddPortion(frame, n.portion)
                     IN  /\ db' = n.db
                         /\ IF RatLeq(f1.lower, f1.total_kcal)
                            THEN /\ pc' = "emit"
                                 /\ frame' = f1
                            ELSE /\ pc' = pc
                                 /\ frame' = [f1 EXCEPT !.idx = @ + 1]
    /\ UNCHANGED <<food_csv, syn_json, log_text, call, args, ret, ledger>>

\* plans.append(...) and the next meal, or the return (lines 119-127)
EmitPlan ==
    /\ pc = "emit"
    /\ LET plan == [items |-> frame.portions, kcal |-> frame.total_kcal,
                    protein |-> frame.total_p, fat |-> frame.total_f,
                    carbs |-> frame.total_c]
           plans == Append(frame.plans, plan)
       IN  IF frame.meal < args.meals
           THEN /\ pc' = "protein"
                /\ frame' = [frame EXCEPT !.plans = plans, !.meal = @ + 1]
                /\ ret' = ret
           ELSE /\ pc' = "idle"
                /\ frame' = [frame EXCEPT !.plans = plans]
                /\ ret' = [status |-> "returned", plans |-> plans]
    /\ UNCHANGED <<food_csv, syn_json, db, log_text, call, args, ledger>>

(***************************************************************************)
(* Inputs of the parser calls.                                             *)
(***************************************************************************)
NamePieces == { <<"a", "b">>, <<"a">> }

NumberPieces == { <<"2">>, <<"1", ".", "5">> }

UnitPieces ==
    { <<"g">>, <<"K", "G">>, <<"m", "l">>, <<"l">>, <<"gae">>, <<"gong", "gi">>,
      <<"keun", "sul">>, <<"jag", "eun", "sul">>, <<"k", "g">> }

SpacePieces == { <<" ">> }

SeparatorPieces == { <<",">>, <<"\n">>, <<"/">>, <<"geu", "ri", "go">> }

Pieces == NamePieces \cup NumberPieces \cup UnitPieces \cup SpacePieces \cup SeparatorPieces

\* every text of at most n pieces drawn from ps
TextsOf(ps, n) == { Concat(q) : q \in UNION { [1..k -> ps] : k \in 0..n } }

\* longer texts: a blank segment between two named ones, the shape of
\* the text of tests/test_parser.py (name amount, name amount / name amount),
\* and a number written against the word before it, with more text after
LongTexts ==
    { <<"g", "/", "geu", "ri", "go", "a">>,
      <<"a", " ", "2", "gae", ",", " ", "c", " ", "1", "gong", "gi", " ", "/", " ",
        "a", "b", " ", "1", "5", "0", "g">>,
      <<"a", "2", " ", "b">>, <<"a", "2", " ", "g", "b">> }

Texts == TextsOf(Pieces, MaxPieces) \cup LongTexts

\* texts of the runs in which the caller also edits the catalog: names that
\* are a catalog name, a part of one, a LIKE wildcard, an alias
CatalogPieces ==
    { <<"a", "b">>, <<"a">>, <<"%">>, <<"c">>, <<"A">>, <<"2">>, <<"gae">>, <<" ">>, <<",">> }

CatalogTexts == TextsOf(CatalogPieces, MaxPieces)

\* data/food_db.csv and data/synonyms.json of the parser runs
ParserCsv == << FoodRow(<<" ", "a", "b">>, Float(155), Float(13), Float(11), Rat(11, 10)) >>

ParserSyn == << [alias |-> <<"c">>, canonical |-> <<"a", "b", " ">>] >>

\* foods and aliases the caller writes between parser calls
ParserFoods == { FoodRow(<<"a">>, Float(18), Rat(9, 10), Rat(2, 10), Rat(39, 10)) }

ParserAliases == { [alias |-> <<"c">>, canonical |-> <<"z">>] }

NutritionNames == { <<"a", "b">>, <<"a">>, <<"b">>, <<"A", "B">>, <<"z">>, <<"%">> }

NutritionGrams == { Float(0), Float(100), Float(150), Rat(27, 2) }

NutritionFoods ==
    { FoodRow(<<"a">>, Float(18), Rat(9, 10), Rat(2, 10), Rat(39, 10)),
      FoodRow(<<"a", "b">>, Float(0), Float(31), Rat(36, 10), Float(0)),
      FoodRow(<<"A", "B">>, Float(20), Float(1), Float(1), Float(1)) }

(***************************************************************************)
(* Calls made by the caller (diet_bot.py, the tests) while no               *)
(* recommend_meals call is running.                                        *)
(***************************************************************************)
NoCall == [op |-> "none"]

\* parse_text(log_text); nth counts the consecutive calls with this text,
\* fresh tells whether the first of them created the database file
ParseText ==
    /\ pc = "idle"
    /\ LET r == parse_text(db, log_text)
           again == call.op = "parse_text" /\ call.text = log_text
       IN  /\ db' = r.db
           /\ call' = [op |-> "parse_text", text |-> log_text, items |-> r.items,
                       unresolved |-> r.unresolved,
                       nth |-> IF again THEN 2 ELSE 1,
                       fresh |-> IF again THEN call.fresh ELSE ~db.exists /\ r.db.exists]
    /\ UNCHANGED <<food_csv, syn_json, log_text, pc, args, frame, ret, ledger>>

ComputeNutrition(name, grams) ==
    /\ pc = "idle"
    /\ LET r == compute_nutrition(db, name, grams)
       IN  /\ db' = r.db
           /\ call' = [op |-> "compute_nutrition", name |-> name, grams |-> grams,
                       kcal |-> r.kcal, protein |-> r.protein, fat |-> r.fat,
                       carbs |-> r.carbs]
    /\ UNCHANGED <<food_csv, syn_json, log_text, pc, args, frame, ret, ledger>>

UpsertFood(row) ==
    /\ pc = "idle"
    /\ db' = upsert_food(db, row.name, row.kcal, row.protein, row.fat, row.carbs)
    /\ call' = [op |-> "upsert_food", row |-> row]
    /\ UNCHANGED <<food_csv, syn_json, log_text, pc, args, frame, ret, ledger>>

AddSynonym(alias, canonical) ==
    /\ pc = "idle"
    /\ db' = add_synonym(db, alias, canonical)
    /\ call' = [op |-> "add_synonym", alias |-> alias, canonical |-> canonical]
    /\ UNCHANGED <<food_csv, syn_json, log_text, pc, args, frame, ret, ledger>>

InitDb ==
    /\ pc = "idle"
    /\ db' = init_db(db)
    /\ call' = [op |-> "init_db"]
    /\ UNCHANGED <<food_csv, syn_json, log_text, pc, args, frame, ret, ledger>>

\* everything but the logged text, as a fresh checkout starts
ParserStart ==
    /\ food_csv = ParserCsv
    /\ syn_json = ParserSyn
    /\ db = NoDb
    /\ call = NoCall
    /\ pc = "idle"
    /\ args = NoArgs
    /\ frame = NoFrame
    /\ ret = NoReturn
    /\ ledger = <<>>

\* the parser alone, over every text
ParserInit == ParserStart /\ log_text \in Texts

ParserNext == ParseText

ParserSpec == ParserInit /\ [][ParserNext]_vars

\* the parser with a caller that edits the catalog and the aliases
CatalogInit == ParserStart /\ log_text \in CatalogTexts

CatalogNext ==
    \/ ParseText
    \/ \E row \in ParserFoods : UpsertFood(row)
    \/ \E a \in ParserAliases : AddSynonym(a.alias, a.canonical)
    \/ InitDb

CatalogSpec == CatalogInit /\ [][CatalogNext]_vars

\* the nutrition scaler with a caller that edits the catalog
NutritionInit == ParserStart /\ log_text = <<>>

NutritionNext ==
    \/ \E name \in NutritionNames, grams \in NutritionGrams : ComputeNutrition(name, grams)
    \/ \E row \in NutritionFoods : UpsertFood(row)
    \/ InitDb

NutritionSpec == NutritionInit /\ [][NutritionNext]_vars

(***************************************************************************)
(* The catalog and alias functions of db.py called directly.               *)
(***************************************************************************)
\* data/food_db.csv and data/synonyms.json of the resolver runs
ResolverCsv ==
    << FoodRow(<<"x", "a", "b">>, Float(20), Float(1), Float(1), Float(1)),
       FoodRow(<<"a", "b">>, Float(155), Float(13), Float(11), Rat(11, 10)) >>

ResolverSyn ==
    << [alias |-> <<"c">>, canonical |-> <<"a", "b", " ">>],
       [alias |-> <<"g">>, canonical |-> <<"z">>] >>

\* names the caller looks up: aliases and catalog names, their parts, and
\* their variants in letter case and surrounding whitespace
ResolverNames ==
    { <<"c">>, <<" ", "c", " ">>, <<"C">>, <<"C", "b">>, <<"c", "b">>, <<"a">>,
      <<" ", "a">>, <<"a", "b">>, <<"A", "B">>, <<"b">>, <<"g">>, <<"z">> }

\* rows and aliases the caller writes
ResolverFoods ==
    { FoodRow(<<" ", "a">>, Float(18), Rat(9, 10), Rat(2, 10), Rat(39, 10)),
      FoodRow(<<"a", "b">>, Float(0), Float(31), Rat(36, 10), Float(0)),
      FoodRow(<<"b">>, Float(52), Rat(3, 10), Rat(2, 10), Float(14)) }

ResolverAliases ==
    { [alias |-> <<"C", "b">>, canonical |-> <<"x", "a", "b">>],
      [alias |-> <<"a", "b">>, canonical |-> <<"b">>] }

ResolveCanonical(name) ==
    /\ pc = "idle"
    /\ LET r == resolve_canonical(db, name)
       IN  /\ db' = r.db
           /\ call' = [op |-> "resolve_canonical", name |-> name, result |-> r.name]
    /\ UNCHANGED <<food_csv, syn_json, log_text, pc, args, frame, ret, ledger>>

GetFood(name) ==
    /\ pc = "idle"
    /\ LET g == get_food(db, name)
       IN  /\ db' = g.db
           /\ call' = [op |-> "get_food", name |-> name, food |-> g.food]
    /\ UNCHANGED <<food_csv, syn_json, log_text, pc, args, frame, ret, ledger>>

ResolverInit ==
    /\ food_csv = ResolverCsv
    /\ syn_json = ResolverSyn
    /\ db = NoDb
    /\ log_text = <<>>
    /\ call = NoCall
    /\ pc = "idle"
    /\ args = NoArgs
    /\ frame = NoFrame
    /\ ret = NoReturn
    /\ ledger = <<>>

ResolverNext ==
    \/ \E name \in ResolverNames : ResolveCanonical(name)
    \/ \E name \in ResolverNames : GetFood(name)
    \/ \E row \in ResolverFoods : UpsertFood(row)
    \/ \E a \in ResolverAliases : AddSynonym(a.alias, a.canonical)
    \/ InitDb

ResolverSpec == ResolverInit /\ [][ResolverNext]_vars

(***************************************************************************)
(* The diary and profile functions of db.py called directly.               *)
(***************************************************************************)
\* the macros and the date of the entries the caller logs
DiaryEntries ==
    { [date |-> "2025-01-01", kcal |-> Float(200), protein |-> Float(10),
       fat |-> Float(4), carbs |-> Float(20)],
      [date |-> "2025-01-01", kcal |-> Rat(1, 10), protein |-> Float(0),
       fat |-> Rat(2, 10), carbs |-> Rat(7, 2)],
      [date |-> "2025-01-02", kcal |-> Float(0), protein |-> Float(31),
       fat |-> Rat(36, 10), carbs |-> Float(0)] }

DiaryDates == { "2025-01-01", "2025-01-02", "2025-01-03" }

\* a row that overwrites a seed food, an alias that replaces a seed alias
DiaryFoods == { FoodRow(<<"a", "b">>, Float(0), Float(31), Rat(36, 10), Float(0)) }

DiaryAliases == { [alias |-> <<"c">>, canonical |-> <<"z">>] }

\* keyword arguments of set_profile, each None or <<value>>
DiaryProfiles ==
    { [gender |-> Some("female"), age |-> Some(30), height_cm |-> None,
       weight_kg |-> None, activity |-> None, target_kcal |-> Some(Float(1800)),
       macro_ratio |-> None],
      [gender |-> Some(""), age |-> None, height_cm |-> None,
       weight_kg |-> Some(Float(80)), activity |-> Some("active"), target_kcal |-> None,
       macro_ratio |-> Some([carb |-> Rat(1, 2), protein |-> Rat(1, 4),
                             fat |-> Rat(1, 4)])] }

\* insert_entry of one logged item; the caller notes the returned id
InsertEntry(e) ==
    /\ pc = "idle"
    /\ Len(db.entries) < MaxEntries
    /\ LET r == insert_entry(db, <<e.date, "T08:00">>, e.date, "08:00", <<"a", "b">>,
                             Float(100), e.kcal, e.protein, e.fat, e.carbs, <<"a", "b">>)
       IN  /\ db' = r.db
           /\ call' = [op |-> "insert_entry", id |-> r.id]
           /\ ledger' = Append(ledger, [id |-> r.id, date |-> e.date, kcal |-> e.kcal,
                                        protein |-> e.protein, fat |-> e.fat,
                                        carbs |-> e.carbs])
    /\ UNCHANGED <<food_csv, syn_json, log_text, pc, args, frame, ret>>

\* delete_entry; a call that returned takes the id off the caller's record
DeleteEntry(entry_id) ==
    /\ pc = "idle"
    /\ LET r == delete_entry(db, entry_id)
       IN  /\ db' = r.db
           /\ call' = [op |-> "delete_entry", id |-> entry_id, status |-> r.status]
           /\ ledger' = IF r.status = "returned"
                        THEN SelectSeq(ledger, LAMBDA x : x.id # entry_id)
                        ELSE ledger
    /\ UNCHANGED <<food_csv, syn_json, log_text, pc, args, frame, ret>>

SumEntries(date_str) ==
    /\ pc = "idle"
    /\ call' = [op |-> "sum_entries", date |-> date_str, result |-> sum_entries(db, date_str)]
    /\ UNCHANGED <<food_csv, syn_json, db, log_text, pc, args, frame, ret, ledger>>

SetProfile(p) ==
    /\ pc = "idle"
    /\ db' = set_profile(db, p.gender, p.age, p.height_cm, p.weight_kg, p.activity,
                         p.target_kcal, p.macro_ratio)
    /\ call' = [op |-> "set_profile", profile |-> p]
    /\ UNCHANGED <<food_csv, syn_json, log_text, pc, args, frame, ret, ledger>>

DiaryInit == ParserStart /\ log_text = <<>>

DiaryNext ==
    \/ \E e \in DiaryEntries : InsertEntry(e)
    \/ \E id \in 1..(MaxEntries + 1) : DeleteEntry(id)
    \/ \E date \in DiaryDates : SumEntries(date)
    \/ \E p \in DiaryProfiles : SetProfile(p)
    \/ \E row \in DiaryFoods : UpsertFood(row)
    \/ \E a \in DiaryAliases : AddSynonym(a.alias, a.canonical)
    \/ InitDb

DiarySpec == DiaryInit /\ [][DiaryNext]_vars

(***************************************************************************)
(* Inputs of the recommender calls.                                        *)
(***************************************************************************)
Tomato == <<"to", "ma", "to">>

\* contents of data/food_db.csv the recommender runs start from
CsvReference ==
    << FoodRow(Dakgaseumsal, Float(165), Float(31), Rat(36, 10), Float(0)),
       FoodRow(Baegmibap, Float(130), Rat(27, 10), Rat(3, 10), Float(28)),
       FoodRow(Yeoneo, Float(208), Float(20), Float(13), Float(0)),
       FoodRow(Tomato, Float(18), Rat(9, 10), Rat(2, 10), Rat(39, 10)) >>

\* foods without protein and without energy
CsvZero ==
    << FoodRow(Dakgaseumsal, Float(0), Float(0), Float(0), Float(0)),
       FoodRow(Baegmibap, Float(0), Float(0), Float(0), Float(7)),
       FoodRow(Yogeoteu, Float(0), Float(0), Float(0), Float(0)) >>

\* light foods: the carbohydrate pass and the fat helpers add several portions
CsvLight ==
    << FoodRow(Dubu, Float(76), Float(8), Rat(48, 10), Rat(19, 10)),
       FoodRow(Banana, Float(89), Rat(11, 10), Rat(3, 10), Float(23)),
       FoodRow(Sagwa, Float(52), Rat(3, 10), Rat(2, 10), Float(14)),
       FoodRow(Godeungeo, Float(205), Float(19), Float(14), Float(0)),
       FoodRow(Yogeoteu, Float(61), Rat(35, 10), Rat(33, 10), Rat(47, 10)) >>

CsvCarbOnly == << FoodRow(Goguma, Float(86), Rat(16, 10), Rat(1, 10), Float(20)) >>

\* no pool food, and a food whose name only contains a pool name
CsvNoPool == << FoodRow(Tomato, Float(18), Rat(9, 10), Rat(2, 10), Rat(39, 10)) >>

\* a row with a negative energy value, as upsert_food and the CSV accept it
CsvNegative == << FoodRow(Banana, Float(-89), Rat(11, 10), Rat(3, 10), Float(23)) >>

CsvEmpty == << >>

RecommenderCsvs ==
    { CsvReference, CsvZero, CsvLight, CsvCarbOnly, CsvNoPool, CsvNegative, CsvEmpty }

TargetKcals == { Float(-300), Float(0), Float(600), Float(1800) }

MacroRatios == { [carb |-> Rat(4, 10), protein |-> Rat(3, 10), fat |-> Rat(3, 10)],
                 [carb |-> Rat(1, 2), fat |-> Rat(1, 2)] }

BodyWeights == { Float(0), Float(70) }

MealCounts == 0..MaxMeals

AvoidLists ==
    { <<>>, <<Dakgaseumsal>>, <<Baegmibap, Yeoneo, Tomato>>,
      PROTEIN_FOODS \o <<Tomato>> }

PreferLists == { <<>>, <<Tomato>>, <<Tomato, Dakgaseumsal, Tomato>>, << <<>> >> }

RecommenderArgs ==
    [target_kcal : TargetKcals, macro_ratio : MacroRatios, body_weight : BodyWeights,
     meals : MealCounts, avoid : AvoidLists, prefer : PreferLists]

RecommenderInit ==
    /\ food_csv \in RecommenderCsvs
    /\ syn_json = <<>>
    /\ db = NoDb
    /\ log_text = <<>>
    /\ call = NoCall
    /\ pc = "idle"
    /\ args \in RecommenderArgs
    /\ frame = NoFrame
    /\ ret = NoReturn
    /\ ledger = <<>>

RecommenderNext ==
    \/ RecommendMeals
    \/ ProteinSlot
    \/ CarbStep
    \/ FatStep
    \/ EmitPlan

RecommenderSpec == RecommenderInit /\ [][RecommenderNext]_vars

(***************************************************************************)
(* Properties of the parser and the nutrition scaler.                      *)
(***************************************************************************)
\* needle occurs in hay, character for character
Contains(hay, needle) ==
    \E i \in 1..(Len(hay) - Len(needle) + 1) : SubSeq(hay, i, i + Len(needle) - 1) = needle

InSeq(x, xs) == \E i \in 1..Len(xs) : xs[i] = x

\* the name candidate is no stored alias and no catalog name equals or contains it
C1_Unmatched(nm) ==
    /\ \A i \in 1..Len(db.food_synonyms) : db.food_synonyms[i].alias # nm
    /\ \A i \in 1..Len(db.food_items) : ~Contains(db.food_items[i].name, nm)

\* C1: a segment whose name candidate is not a stored alias and is neither
\* equal to nor a substring of any catalog food name is appended to
\* unresolved, and parse_text emits no ParsedItem for it.
C1_UnmatchedIsUnresolved ==
    call.op = "parse_text" =>
        \A s \in { split_items(call.text)[i] : i \in 1..Len(split_items(call.text)) } :
            C1_Unmatched(name_part(s)) =>
                /\ InSeq(s, call.unresolved)
                /\ \A k \in 1..Len(call.items) : call.items[k].raw_name # name_part(s)

\* the unit table as C2 states it
C2_Table ==
    (<<"g">> :> Float(1)) @@ (<<"k", "g">> :> Float(1000)) @@
    (<<"m", "l">> :> Float(1)) @@ (<<"l">> :> Float(1000)) @@
    (<<"gae">> :> Float(50)) @@ (<<"gong", "gi">> :> Float(210)) @@
    (<<"keun", "sul">> :> Rat(27, 2)) @@ (<<"jag", "eun", "sul">> :> Rat(9, 2))

\* w is digits, or digits "." digits
C2_IsLiteral(w) ==
    \E q \in 1..Len(w) :
        /\ \A i \in 1..q : IsDigit(w[i])
        /\ \/ q = Len(w)
           \/ /\ q + 2 <= Len(w)
              /\ w[q + 1] = "."
              /\ \A i \in (q + 2)..Len(w) : IsDigit(w[i])

C2_Value(w) ==
    LET dots == {i \in 1..Len(w) : w[i] = "."}
    IN  IF dots = {} THEN Float(DigitsValue(w))
        ELSE LET q == CHOOSE i \in dots : TRUE
             IN  RatAdd(Float(DigitsValue(SubSeq(w, 1, q - 1))),
                        Rat(DigitsValue(SubSeq(w, q + 1, Len(w))), Pow10(Len(w) - q)))

\* grams C2 gives a segment: 100 without a number, else the first number
\* times the factor of the table unit that follows it, if one does
C2_Grams(seg) ==
    LET digits == {i \in 1..Len(seg) : IsDigit(seg[i])}
    IN  IF digits = {} THEN Float(100)
        ELSE LET i == CHOOSE x \in digits : \A y \in digits : x <= y
                 ends == {j \in i..Len(seg) : C2_IsLiteral(SubSeq(seg, i, j))}
                 j == CHOOSE x \in ends : \A y \in ends : y <= x
                 rest == LStrip(SubSeq(seg, j + 1, Len(seg)))
                 units == {u \in DOMAIN C2_Table :
                             Len(u) <= Len(rest) /\ LowerStr(SubSeq(rest, 1, Len(u))) = u}
             IN  IF units = {} THEN C2_Value(SubSeq(seg, i, j))
                 ELSE RatMul(C2_Value(SubSeq(seg, i, j)), C2_Table[CHOOSE u \in units : TRUE])

\* the segments of the latest parse_text call that are not reported unresolved
C2_ResolvedSegments ==
    SelectSeq(split_items(call.text), LAMBDA s : ~InSeq(s, call.unresolved))

\* C2: the grams of every emitted ParsedItem are value x factor[unit] when
\* the segment's first number is followed by a unit of the fixed table
\* (case-insensitively), the value itself when it is not, and 100 when the
\* segment has no number.
C2_GramsFollowTheTable ==
    call.op = "parse_text" =>
        /\ Len(call.items) = Len(C2_ResolvedSegments)
        /\ \A k \in 1..Len(call.items) :
               call.items[k].grams = C2_Grams(C2_ResolvedSegments[k])

\* a call that converted an upper-case kg, a tablespoon amount or a bare name
C2_Witness ==
    /\ call.op = "parse_text"
    /\ Len(call.items) = 1
    /\ \/ call.text = <<"a", "b", "2", "K", "G">> /\ call.items[1].grams = Float(2000)
       \/ call.text = <<"a", "1", ".", "5", "keun", "sul">> /\ call.items[1].grams = Rat(81, 4)

\* the entry C3 scales: the row of that name, else a shortest row whose name
\* contains it
C3_Entries(name) ==
    LET rows == { db.food_items[i] : i \in 1..Len(db.food_items) }
        exact == { r \in rows : r.name = name }
        part == { r \in rows : Contains(r.name, name) }
    IN  IF exact # {} THEN exact
        ELSE { r \in part : \A o \in part : Len(r.name) <= Len(o.name) }

\* C3: compute_nutrition returns zeros when the catalog has no entry for the
\* name, and otherwise every macro of the entry multiplied by grams / 100.
C3_ScalesTheCatalogEntry ==
    call.op = "compute_nutrition" =>
        IF C3_Entries(call.name) = {}
        THEN call.kcal = Zero /\ call.protein = Zero /\ call.fat = Zero /\ call.carbs = Zero
        ELSE \E r \in C3_Entries(call.name) :
                /\ call.kcal = RatDiv(RatMul(r.kcal, call.grams), Float(100))
                /\ call.protein = RatDiv(RatMul(r.protein, call.grams), Float(100))
                /\ call.fat = RatDiv(RatMul(r.fat, call.grams), Float(100))
                /\ call.carbs = RatDiv(RatMul(r.carbs, call.grams), Float(100))

\* C8: a second parse_text call with the same text, with no catalog or
\* synonym write in between, returns what the first returned.
C8_RepeatedParseIsEqual ==
    [][(call.op = "parse_text" /\ call'.op = "parse_text" /\ call'.text = call.text)
          => (call'.items = call.items /\ call'.unresolved = call.unresolved)]_vars

\* the second of two equal calls, the first of which created the database
C8_Witness ==
    /\ call.op = "parse_text"
    /\ call.nth = 2
    /\ call.fresh
    /\ call.items # <<>>
    /\ call.unresolved # <<>>

\* position q of t is a separator: a comma, a newline, a slash, or part of
\* the word <geu ri go>
C9_IsSep(t, q) ==
    \/ t[q] \in {",", "\n", "/"}
    \/ \E b \in {q - 2, q - 1, q} : b >= 1 /\ StartsWithAt(t, b, <<"geu", "ri", "go">>)

C9_IsContent(t, q) == ~C9_IsSep(t, q) /\ ~IsSpace(t[q])

\* the non-blank segments of t from position from on, left to right
RECURSIVE C9_Segments(_, _)
C9_Segments(t, from) ==
    LET content == {q \in from..Len(t) : C9_IsContent(t, q)}
    IN  IF content = {} THEN <<>>
        ELSE LET b == CHOOSE x \in content : \A y \in content : x <= y
                 run == {q \in content : \A r \in b..q : ~C9_IsSep(t, r)}
                 e == CHOOSE x \in run : \A y \in run : y <= x
                 stop == {q \in e..Len(t) : C9_IsSep(t, q)}
                 nxt == IF stop = {} THEN Len(t) + 1
                        ELSE CHOOSE x \in stop : \A y \in stop : x <= y
             IN  <<SubSeq(t, b, e)>> \o C9_Segments(t, nxt)

\* C9: parse_text splits on commas, newlines, slashes and <geu ri go>; every
\* non-blank segment gives exactly one output, an item or an unresolved
\* string, blank segments give none, and both lists keep the segments' order.
C9_OneOutputPerSegment ==
    call.op = "parse_text" =>
        LET segs == C9_Segments(call.text, 1)
            lost == SelectSeq(segs, LAMBDA s : InSeq(s, call.unresolved))
            kept == SelectSeq(segs, LAMBDA s : ~InSeq(s, call.unresolved))
        IN  /\ Len(call.items) + Len(call.unresolved) = Len(segs)
            /\ call.unresolved = lost
            /\ Len(call.items) = Len(kept)
            /\ \A k \in 1..Len(call.items) : call.items[k].raw_name = name_part(kept[k])

\* two segments around a blank one, one resolved and one not
C9_Witness ==
    /\ call.op = "parse_text"
    /\ call.text = <<"g", "/", "geu", "ri", "go", "a">>
    /\ Len(call.items) = 1
    /\ call.unresolved = << <<"g">> >>

(***************************************************************************)
(* Properties of the recommender.                                          *)
(***************************************************************************)
\* the plans built so far by the running call, or returned by the latest one
Plans ==
    IF pc # "idle" THEN frame.plans
    ELSE IF ret.status = "returned" THEN ret.plans
    ELSE <<>>

AvoidSet == { args.avoid[i] : i \in 1..Len(args.avoid) }

PreferSet == { args.prefer[i] : i \in 1..Len(args.prefer) }

Pool(names) == { names[i] : i \in 1..Len(names) }

InCatalog(name) == \E i \in 1..Len(db.food_items) : db.food_items[i].name = name

\* C4: recommend_meals returns normally for every target, ratio, weight,
\* meal count >= 0, avoid and prefer list and every catalog.
C4_NeverRaises == ret.status # "raised"

\* C5: with target_kcal > 0 and at least one meal, if a protein,
\* carbohydrate or fat-helper pool name that is not avoided is in the
\* catalog, every returned plan has a non-empty item list.
C5_PlansAreNonEmpty ==
    ( /\ ret.status = "returned"
      /\ RatLess(Zero, args.target_kcal)
      /\ args.meals >= 1
      /\ \E name \in Pool(PROTEIN_FOODS) \cup Pool(CARB_FOODS) \cup Pool(FAT_HELPERS) :
            name \notin AvoidSet /\ InCatalog(name) )
    => \A i \in 1..Len(ret.plans) : ret.plans[i].items # <<>>

\* a returned plan that holds only a carbohydrate portion
C5_Witness ==
    /\ ret.status = "returned"
    /\ RatLess(Zero, args.target_kcal)
    /\ food_csv = CsvCarbOnly
    /\ Len(ret.plans) = MaxMeals
    /\ \A i \in 1..Len(ret.plans) :
          Len(ret.plans[i].items) = 1 /\ ret.plans[i].items[1].name = Goguma

\* every prefer name and every protein-pool name is in avoid
C6_AllProteinAvoided == PreferSet \cup Pool(PROTEIN_FOODS) \subseteq AvoidSet

\* C6: no portion of any plan is a food named in avoid, in any of the three
\* slots and also when the name is in prefer; when every prefer and
\* protein-pool name is avoided the meal gets no protein portion, the
\* carbohydrate pass runs next, and the meal is emitted from the fat-helper
\* pass unless the carbohydrate pass already reached the lower bound.
C6_AvoidIsHonoured ==
    [][ /\ pc' # "idle" =>
             \A k \in 1..Len(frame'.portions) : frame'.portions[k].name \notin AvoidSet
        /\ \A i \in 1..Len(Plans') : \A k \in 1..Len(Plans'[i].items) :
               Plans'[i].items[k].name \notin AvoidSet
        /\ (C6_AllProteinAvoided /\ pc = "protein") =>
               (pc' = "carb" /\ frame'.portions = <<>>)
        /\ (C6_AllProteinAvoided /\ pc' = "emit") =>
               (pc = "fat" \/ (pc = "carb" /\ RatLeq(frame'.lower, frame'.total_kcal)))
      ]_vars

\* the whole protein pool and the preferred tomato avoided: the returned
\* meal is the rice of the carbohydrate pass alone
C6_Witness ==
    /\ ret.status = "returned"
    /\ C6_AllProteinAvoided
    /\ PreferSet # {}
    /\ food_csv = CsvReference
    /\ Len(ret.plans) >= 1
    /\ Len(ret.plans[1].items) = 1
    /\ ret.plans[1].items[1].name = Baegmibap

\* C7: for a meal count >= 1 recommend_meals returns exactly that many
\* plans, and all of them are equal.
C7_OnePlanPerMealAllEqual ==
    (ret.status = "returned" /\ args.meals >= 1) =>
        /\ Len(ret.plans) = args.meals
        /\ \A i \in 1..Len(ret.plans) : ret.plans[i] = ret.plans[1]

\* MaxMeals plans of three portions each
C7_Witness ==
    /\ ret.status = "returned"
    /\ args.meals = MaxMeals
    /\ Len(ret.plans) = MaxMeals
    /\ Len(ret.plans[MaxMeals].items) >= 3
    /\ RatLess(Zero, ret.plans[MaxMeals].kcal)

RECURSIVE C10_Sum(_, _)
C10_Sum(items, field) ==
    IF items = <<>> THEN Zero
    ELSE RatAdd(C10_Sum(SubSeq(items, 1, Len(items) - 1), field), items[Len(items)][field])

C10_NonNegativeCatalog ==
    \A i \in 1..Len(db.food_items) : \A field \in {"kcal", "protein", "fat", "carbs"} :
        RatLeq(Zero, db.food_items[i][field])

\* C10: every total of a plan is the sum of that field over the plan's
\* items, and with a catalog of non-negative values every total and every
\* item value is non-negative.
C10_TotalsAreSums ==
    \A i \in 1..Len(Plans) : \A field \in {"kcal", "protein", "fat", "carbs"} :
        /\ Plans[i][field] = C10_Sum(Plans[i].items, field)
        /\ C10_NonNegativeCatalog =>
              /\ RatLeq(Zero, Plans[i][field])
              /\ \A k \in 1..Len(Plans[i].items) :
                    /\ RatLeq(Zero, Plans[i].items[k][field])
                    /\ RatLeq(Zero, Plans[i].items[k].grams)

\* a returned plan of at least three portions with a quotient-sized one
C10_Witness ==
    /\ ret.status = "returned"
    /\ Len(ret.plans) >= 1
    /\ Len(ret.plans[1].items) >= 3
    /\ \E k \in 1..Len(ret.plans[1].items) : ret.plans[1].items[k].grams.d # 1
    /\ RatLess(Zero, ret.plans[1].carbs)

(***************************************************************************)
(* Properties of the catalog and alias functions.                          *)
(***************************************************************************)
\* the query differs from the stored name at most in letter case and in
\* leading or trailing whitespace
C11_SameButCaseAndSpace(query, stored) == LowerStr(Strip(query)) = LowerStr(stored)

\* C11: for every stored alias a with canonical c, resolve_canonical
\* returns c for every query that differs from a only in letter case or in
\* leading or trailing whitespace (a being the only stored alias the query
\* differs from in that way).
C11_AliasLookupIsNormalised ==
    call.op = "resolve_canonical" =>
        \A i \in 1..Len(db.food_synonyms) :
            ( /\ C11_SameButCaseAndSpace(call.name, db.food_synonyms[i].alias)
              /\ \A j \in 1..Len(db.food_synonyms) :
                    C11_SameButCaseAndSpace(call.name, db.food_synonyms[j].alias) => j = i )
            => call.result = db.food_synonyms[i].canonical

\* the catalog names that contain nm, shortest first in length
C12_Containing(nm) ==
    { db.food_items[i].name : i \in { k \in 1..Len(db.food_items) :
                                          Contains(db.food_items[k].name, nm) } }

\* C12: resolve_canonical returns the alias's canonical name if the
\* (stripped) input is a stored alias; otherwise the catalog name equal to
\* the input; otherwise a shortest catalog name that contains the input;
\* and the input only if none of the three matches.
C12_ResolverChain ==
    call.op = "resolve_canonical" =>
        LET nm == Strip(call.name)
            syn == SelectSeq(db.food_synonyms, LAMBDA r : r.alias = nm)
            exact == SelectSeq(db.food_items, LAMBDA r : r.name = nm)
            containing == C12_Containing(nm)
        IN  IF syn # <<>> THEN call.result = syn[1].canonical
            ELSE IF exact # <<>> THEN call.result = nm
            ELSE IF containing # {}
                 THEN /\ call.result \in containing
                      /\ \A other \in containing : Len(call.result) <= Len(other)
            ELSE call.result = nm

\* C13: from any prior database state, after upsert_food(n, ...) the
\* catalog holds exactly one record named n and get_food(n) returns that
\* record with exactly the values just written.
C13_UpsertThenGet ==
    [][ (call.op = "upsert_food" /\ call'.op = "get_food" /\ call'.name = call.row.name)
        => /\ Cardinality({ i \in 1..Len(db'.food_items) :
                               db'.food_items[i].name = call.row.name }) = 1
           /\ call'.food = Some(call.row)
      ]_vars

\* C13 as amended: after upsert_food(n, ...) the catalog holds exactly one
\* record named n.strip(), and get_food(n.strip()) returns that record with
\* exactly the values just written.
C13_UpsertThenGetStripped ==
    [][ (call.op = "upsert_food" /\ call'.op = "get_food"
         /\ call'.name = Strip(call.row.name))
        => /\ Cardinality({ i \in 1..Len(db'.food_items) :
                               db'.food_items[i].name = Strip(call.row.name) }) = 1
           /\ call'.food = Some([call.row EXCEPT !.name = Strip(@)])
      ]_vars

\* get_food finds the seed row "ab" with the values a later upsert gave it,
\* next to the row "a" that upsert_food(" a", ...) added
C13_Witness ==
    /\ call.op = "get_food"
    /\ call.name = <<"a", "b">>
    /\ call.food = Some(FoodRow(<<"a", "b">>, Float(0), Float(31), Rat(36, 10), Float(0)))
    /\ \E i \in 1..Len(db.food_items) : db.food_items[i].name = <<"a">>

(***************************************************************************)
(* Properties of the diary and of init_db.                                 *)
(***************************************************************************)
\* the sum of a column over the caller's record of a date, 0.0 without entries
RECURSIVE C14_LedgerSum(_, _, _)
C14_LedgerSum(rows, date, column) ==
    IF rows = <<>> THEN Zero
    ELSE RatAdd(C14_LedgerSum(SubSeq(rows, 1, Len(rows) - 1), date, column),
                IF rows[Len(rows)].date = date THEN rows[Len(rows)][column] ELSE Zero)

\* C14: after any sequence of insert_entry and delete_entry calls,
\* sum_entries(d) returns for each of kcal, protein, fat and carbs the sum
\* over exactly the entries inserted with date d and not deleted since (0.0
\* when there are none); every insert_entry returns an id > 0 that differs
\* from the id of every other entry still stored.
C14_SumsTheLiveEntries ==
    /\ call.op = "sum_entries" =>
          /\ call.result.status = "returned"
          /\ \A column \in {"kcal", "protein", "fat", "carbs"} :
                 call.result[column] = C14_LedgerSum(ledger, call.date, column)
    /\ call.op = "insert_entry" =>
          /\ call.id > 0
          /\ Cardinality({ i \in 1..Len(db.entries) : db.entries[i].id = call.id }) = 1

\* every row of old is a row of new, unchanged and at its place
C19_Kept(old, new) == Len(old) <= Len(new) /\ SubSeq(new, 1, Len(old)) = old

\* C19: from any reachable database state init_db leaves every food_items
\* row, every food_synonyms row, the user_profile row and all entries
\* unchanged; it only adds seed foods and seed aliases whose name or alias is
\* not yet stored and a default profile when none exists, and running it a
\* second time changes nothing.
C19_InitDbIsNonDestructive ==
    [][ call'.op = "init_db" =>
          /\ C19_Kept(db.food_items, db'.food_items)
          /\ C19_Kept(db.food_synonyms, db'.food_synonyms)
          /\ db'.entries = db.entries
          /\ db'.user_profile = IF db.user_profile = <<>> THEN <<DefaultProfile>>
                                ELSE db.user_profile
          /\ \A i \in (Len(db.food_items) + 1)..Len(db'.food_items) :
                /\ \E k \in 1..Len(food_csv) :
                      db'.food_items[i] = [food_csv[k] EXCEPT !.name = Strip(@)]
                /\ \A j \in 1..Len(db.food_items) :
                      db.food_items[j].name # db'.food_items[i].name
          /\ \A i \in (Len(db.food_synonyms) + 1)..Len(db'.food_synonyms) :
                /\ \E k \in 1..Len(syn_json) :
                      db'.food_synonyms[i] = [alias |-> Strip(syn_json[k].alias),
                                              canonical |-> Strip(syn_json[k].canonical)]
                /\ \A j \in 1..Len(db.food_synonyms) :
                      db.food_synonyms[j].alias # db'.food_synonyms[i].alias
          /\ call.op = "init_db" => db' = db
      ]_vars

\* init_db has run on a database whose seed food and seed alias were
\* rewritten, whose profile was edited and whose diary has entries
C19_Witness ==
    /\ call.op = "init_db"
    /\ \E i \in 1..Len(db.food_items) : db.food_items[i] \in DiaryFoods
    /\ \E i \in 1..Len(db.food_synonyms) : db.food_synonyms[i] \in DiaryAliases
    /\ db.user_profile[1].gender = "female"
    /\ Len(db.entries) = MaxEntries

(***************************************************************************)
(* Properties of the recommender's slots.                                  *)
(***************************************************************************)
\* the first name of names that is not in avoid and that get_food finds
RECURSIVE C15_FirstEligible(_)
C15_FirstEligible(names) ==
    IF names = <<>> THEN None
    ELSE IF Head(names) \notin AvoidSet /\ SelectFood(db.food_items, Head(names)) # None
         THEN Some(Head(names))
         ELSE C15_FirstEligible(Tail(names))

\* C15: in each meal the protein portion, if there is one, is the first
\* name, scanning the prefer names in the order the caller supplied them and
\* then the protein pool in its listed order, that is not in avoid and is
\* present in the catalog.
C15_ProteinPickFollowsCallerOrder ==
    (pc = "carb" /\ frame.idx = 1 /\ frame.portions # <<>>) =>
        Some(frame.portions[1].name) = C15_FirstEligible(args.prefer \o PROTEIN_FOODS)

C16_Within(grams, lo, hi) == RatLeq(Float(lo), grams) /\ RatLeq(grams, Float(hi))

C16_Last(f) == f.portions[Len(f.portions)]

\* C16: every portion has grams inside the clamp range of the slot that
\* added it, whatever the targets and the food's density: the protein
\* portion in [50, 200], each carbohydrate portion in [80, 250], each
\* fat-helper portion in [30, 100]; the returned plans hold these portions.
C16_GramsWithinTheSlotRange ==
    [][ /\ pc = "protein" =>
              /\ Len(frame'.portions) <= 1
              /\ \A k \in 1..Len(frame'.portions) :
                     C16_Within(frame'.portions[k].grams, 50, 200)
        /\ (pc = "carb" /\ frame'.portions # frame.portions) =>
              /\ SubSeq(frame'.portions, 1, Len(frame.portions)) = frame.portions
              /\ Len(frame'.portions) = Len(frame.portions) + 1
              /\ C16_Within(C16_Last(frame').grams, 80, 250)
        /\ (pc = "fat" /\ frame'.portions # frame.portions) =>
              /\ SubSeq(frame'.portions, 1, Len(frame.portions)) = frame.portions
              /\ Len(frame'.portions) = Len(frame.portions) + 1
              /\ C16_Within(C16_Last(frame').grams, 30, 100)
        /\ pc = "emit" => Plans'[Len(Plans')].items = frame.portions
      ]_vars

\* foods without protein and without energy: the protein portion at the top
\* of its range, then a carbohydrate portion at the top of its range
C16_Witness ==
    /\ ret.status = "returned"
    /\ food_csv = CsvZero
    /\ Len(ret.plans) >= 1
    /\ Len(ret.plans[1].items) >= 2
    /\ ret.plans[1].items[1].grams = Float(200)
    /\ ret.plans[1].items[2].grams = Float(250)

\* C17: within one meal (target_kcal >= 0) a carbohydrate portion is added
\* only when total_kcal is below per_meal_kcal, and a carbohydrate step that
\* adds nothing leaves total_kcal as it is; the carbohydrate loop goes on
\* after an addition only while total_kcal < lower_bound, so every later
\* carbohydrate portion is added below lower_bound; the fat-helper loop is
\* entered and goes on only while total_kcal < lower_bound; once an addition
\* brings total_kcal to lower_bound or above the meal is emitted as it is.
C17_GreedyGuards ==
    [][ RatLeq(Zero, args.target_kcal) =>
          /\ (pc = "carb" /\ frame'.portions # frame.portions) =>
                 /\ RatLess(frame.total_kcal, frame.per_meal)
                 /\ pc' = "carb" => RatLess(frame'.total_kcal, frame.lower)
                 /\ RatLeq(frame.lower, frame'.total_kcal) => pc' = "emit"
          /\ (pc = "carb" /\ frame'.portions = frame.portions) =>
                 frame'.total_kcal = frame.total_kcal
          /\ pc' = "fat" => RatLess(frame'.total_kcal, frame.lower)
          /\ (pc = "fat" /\ frame'.portions # frame.portions) =>
                 /\ RatLess(frame.total_kcal, frame.lower)
                 /\ RatLeq(frame.lower, frame'.total_kcal) => pc' = "emit"
          /\ pc = "emit" =>
                 /\ Plans'[Len(Plans')].items = frame.portions
                 /\ Plans'[Len(Plans')].kcal = frame.total_kcal
      ]_vars

\* a meal whose protein portion alone reached lower_bound but not
\* per_meal_kcal: one carbohydrate portion was added and the meal emitted
C17_Witness ==
    /\ pc = "emit"
    /\ RatLess(Zero, args.target_kcal)
    /\ Len(frame.portions) = 2
    /\ RatLeq(frame.lower, frame.portions[1].kcal)
    /\ RatLess(frame.portions[1].kcal, frame.per_meal)
    /\ frame.portions[2].name \in Pool(CARB_FOODS)

\* the first numeric literal of seg and what follows it, as C18 words it:
\* [first, last: the literal's positions, stop: the last position of the
\*  number+unit substring, unit: the lower-cased vocabulary token or None]
C18_Literal(seg, i, j, rest) ==
    LET units == {u \in DOMAIN C2_Table :
                    Len(u) <= Len(rest) /\ LowerStr(SubSeq(rest, 1, Len(u))) = u}
    IN  IF units = {}
        THEN [first |-> i, last |-> j, stop |-> j, unit |-> None]
        ELSE [first |-> i, last |-> j,
              stop |-> Len(seg) - Len(rest) + Len(CHOOSE u \in units : TRUE),
              unit |-> Some(CHOOSE u \in units : TRUE)]

C18_LiteralFrom(seg, i) ==
    LET ends == {j \in i..Len(seg) : C2_IsLiteral(SubSeq(seg, i, j))}
        j == CHOOSE x \in ends : \A y \in ends : y <= x
    IN  C18_Literal(seg, i, j, LStrip(SubSeq(seg, j + 1, Len(seg))))

C18_First(seg) ==
    LET digits == {i \in 1..Len(seg) : IsDigit(seg[i])}
    IN  IF digits = {} THEN None
        ELSE Some(C18_LiteralFrom(seg, CHOOSE x \in digits : \A y \in digits : x <= y))

\* the amount C18 gives a segment
C18_Amount(seg) ==
    IF C18_First(seg) = None THEN None
    ELSE Some([value |-> C2_Value(SubSeq(seg, C18_First(seg)[1].first, C18_First(seg)[1].last)),
               unit |-> C18_First(seg)[1].unit])

\* the name candidate C18 gives a segment: the segment without the
\* number+unit substring, whitespace collapsed and trimmed (the whole trimmed
\* segment when nothing is left)
C18_Cut(seg, nm) == IF nm = <<>> THEN Strip(seg) ELSE nm

C18_Name(seg) ==
    IF C18_First(seg) = None THEN C18_Cut(seg, Strip(CollapseSpaces(seg)))
    ELSE C18_Cut(seg, Strip(CollapseSpaces(SubSeq(seg, 1, C18_First(seg)[1].first - 1)
                                       \o SubSeq(seg, C18_First(seg)[1].stop + 1, Len(seg)))))

\* the amount half of C18: None without a digit, else the value of the first
\* literal and the lower-cased unit token that follows it, if one does
C18_AmountOfTheFirstLiteral ==
    call.op = "parse_text" =>
        \A k \in 1..Len(split_items(call.text)) :
            extract_amount(split_items(call.text)[k]) = C18_Amount(split_items(call.text)[k])

\* C18: extract_amount returns None for a segment without a digit, else the
\* value of the segment's first numeric literal and the lower-cased unit
\* token that follows it after optional whitespace (None when none does),
\* whatever comes later in the segment; and the name candidate of parse_text
\* is the segment with exactly that number+unit substring removed.
C18_FirstLiteralOnly ==
    call.op = "parse_text" =>
        /\ \A k \in 1..Len(split_items(call.text)) :
               /\ extract_amount(split_items(call.text)[k]) = C18_Amount(split_items(call.text)[k])
               /\ name_part(split_items(call.text)[k]) = C18_Name(split_items(call.text)[k])
        /\ \A k \in 1..Len(call.items) :
               call.items[k].raw_name = C18_Name(C2_ResolvedSegments[k])

====
